---- MODULE Spec2Model ----
(***************************************************************************)
(* A model of touchpad_driver.py: the event loop of main() that turns raw  *)
(* multi-touch events into pointer motion, clicks, wheel ticks and key     *)
(* chords.  One action per inbound event kind; every action is the whole   *)
(* body of the loop for that event.  Time is counted in units of 50 ms.    *)
(***************************************************************************)
EXTENDS Integers, Sequences, FiniteSets, TLC

\* ---------------------------------------------------------------- configuration
SCROLL_DIVIDER == 40
NATURAL_SCROLLING == TRUE
PALM_ZONE_TOP_Y == 500
PALM_PRESSURE_THRESHOLD == 45
MIN_MOVE_PRESSURE == 2
LOW_PRESSURE_THRESHOLD == 15
SMALL_MOVE_CUTOFF == 2
\* 0.20 s and 0.25 s, in units of 50 ms
TAP_TIMEOUT == 4
COOLDOWN_AFTER_SCROLL == 5
TAP_MOVEMENT_LIMIT == 40
PRESS_THRESHOLD == 140
RELEASE_THRESHOLD == 80
GESTURE_DISTANCE_THRESHOLD == 100
RIGHT_CLICK_ZONE_X == 3000
BOTTOM_ZONE_Y == 1800
\* the sanity bound of the one-finger branch and the speed that turns on ACCEL_FACTOR
JUMP_LIMIT == 400
ACCEL_SPEED == 15

\* ---------------------------------------------------------------- bounds
\* the clock starts at StartNow: time.time() is far from the 0 the timestamps start at
StartNow == 6
\* the clock advances TickStep units at a time
TickStep == 2
\* how many times the clock advances: where the timing decides, and elsewhere
TapTicks == 3
IdleTicks == 1

VARIABLES
    slots, prev_slots, active_slot,
    current_finger_count, max_fingers_during_touch, max_pressure_during_touch,
    touch_start_time, touch_start_coords,
    is_physically_clicked, active_physical_button,
    last_scroll_time, scroll_acc_y, scroll_acc_x, is_scrolling,
    is_palm_rejected, gesture_acc_x, gesture_acc_y, gesture_triggered,
    now,        \* the value time.time() returns
    event,      \* the kind of the inbound event the loop processed last
    written,    \* what that iteration wrote to vmouse, in order
    \* history of the run, kept for the properties; the driver never reads it
    h_palm,     \* the touch-down of the running session met the palm test
    h_chords,   \* chords written since the last touch-down
    h_fingers,  \* the largest finger count since the last touch-down
    h_phys,     \* the button the frames' click logic holds down, by what was written
    h_owed_y,   \* vertical delta of the two-finger frames, less SCROLL_DIVIDER per tick
    h_owed_x,   \* the same for the horizontal axis
    h_frame,    \* the last report boundary was the first since a touch-down, or a
                \* later one, or none has come ("fresh")
    h_scrolled, \* a two-finger frame with a delta of slot 0 came since the last touch-down
    h_tapped,   \* a tap click was written since the last touch-down
    h_pressed   \* "open" from a touch-down to its touch-up, "pressed" once a frame of
                \* that session wrote a button-down, "closed" outside sessions

driver == <<slots, prev_slots, active_slot,
            current_finger_count, max_fingers_during_touch, max_pressure_during_touch,
            touch_start_time, touch_start_coords,
            is_physically_clicked, active_physical_button,
            last_scroll_time, scroll_acc_y, scroll_acc_x, is_scrolling,
            is_palm_rejected, gesture_acc_x, gesture_acc_y, gesture_triggered>>

history == <<h_palm, h_chords, h_fingers, h_phys, h_owed_y, h_owed_x,
             h_frame, h_scrolled, h_tapped, h_pressed>>

vars == <<driver, now, event, written, history>>

\* ---------------------------------------------------------------- helpers
Abs(n) == IF n < 0 THEN -n ELSE n

\* Python's int(a / b) for b > 0: the quotient truncated toward zero
TruncDiv(a, b) == IF a >= 0 THEN a \div b ELSE -((-a) \div b)

Has(m, s) == s \in DOMAIN m

NewSlot == [x |-> 0, y |-> 0, p |-> 0]

\* the empty dict
NoSlots == [k \in {} |-> NewSlot]

Without(m, s) == [k \in DOMAIN m \ {s} |-> m[k]]

Key(code, value) == <<"EV_KEY", code, value>>
Rel(code, value) == <<"EV_REL", code, value>>
Syn == <<"EV_SYN", "SYN_REPORT", 0>>

InZone(x, y) == x > RIGHT_CLICK_ZONE_X /\ y > BOTTOM_ZONE_Y

\* ---------------------------------------------------------------- EV_ABS
\* slots after `if active_slot not in slots: slots[active_slot] = {...}`
Touched(a) == IF Has(slots, a) THEN slots ELSE slots @@ (a :> NewSlot)

\* the EV_ABS branch of the loop for one event (code, value)
HandleAbs(code, value) ==
    LET a == IF code = "ABS_MT_SLOT" THEN value ELSE active_slot
        s == Touched(a)
    IN  /\ active_slot' = a
        /\ slots' =
             CASE code = "ABS_MT_POSITION_X" -> [s EXCEPT ![a].x = value]
               [] code = "ABS_MT_POSITION_Y" -> [s EXCEPT ![a].y = value]
               [] code = "ABS_MT_PRESSURE" -> [s EXCEPT ![a].p = value]
               [] code = "ABS_MT_TRACKING_ID" /\ value = -1 -> Without(s, a)
               [] OTHER -> s
        /\ max_pressure_during_touch' =
             IF code = "ABS_MT_PRESSURE" /\ value > max_pressure_during_touch
             THEN value ELSE max_pressure_during_touch
        /\ written' = <<>>
        /\ event' = "abs"
        /\ UNCHANGED <<prev_slots, current_finger_count, max_fingers_during_touch,
                       touch_start_time, touch_start_coords, is_physically_clicked,
                       active_physical_button, last_scroll_time, scroll_acc_y,
                       scroll_acc_x, is_scrolling, is_palm_rejected, gesture_acc_x,
                       gesture_acc_y, gesture_triggered, now>>

\* ---------------------------------------------------------------- EV_KEY
ToolCount(code) ==
    CASE code = "BTN_TOOL_FINGER" -> 1
      [] code = "BTN_TOOL_DOUBLETAP" -> 2
      [] code = "BTN_TOOL_TRIPLETAP" -> 3
      [] code = "BTN_TOOL_QUADTAP" -> 4

ToolCodes == {"BTN_TOOL_FINGER", "BTN_TOOL_DOUBLETAP", "BTN_TOOL_TRIPLETAP",
              "BTN_TOOL_QUADTAP"}

\* FingerCount where a release clears the count only if its tool is the one that set it
FingerCountOwnTool(code, value) ==
    IF code \in ToolCodes
    THEN (IF value # 0 THEN ToolCount(code)
          ELSE IF ToolCount(code) = current_finger_count THEN 0
          ELSE current_finger_count)
    ELSE current_finger_count

\* current_finger_count after the BTN_TOOL_* chain
FingerCount(code, value) ==
    IF code \in ToolCodes
    THEN (IF value # 0 THEN ToolCount(code) ELSE 0)
    ELSE current_finger_count

\* max_fingers_during_touch after `if current_finger_count > max_fingers_during_touch`
MaxFingers(fc) ==
    IF fc > max_fingers_during_touch THEN fc ELSE max_fingers_during_touch

\* the palm test made at touch start, on slot 0
IsPalm(s0) == s0.y < PALM_ZONE_TOP_Y /\ s0.p > PALM_PRESSURE_THRESHOLD

\* TouchStart without prev_slots.clear()
TouchStartKeepsPrev(fc) ==
    /\ touch_start_time' = now
    /\ max_fingers_during_touch' = fc
    /\ max_pressure_during_touch' = 0
    /\ is_scrolling' = FALSE
    /\ gesture_triggered' = FALSE
    /\ gesture_acc_x' = 0
    /\ gesture_acc_y' = 0
    /\ IF Has(slots, 0)
       THEN /\ touch_start_coords' = <<slots[0].x, slots[0].y>>
            /\ is_palm_rejected' = IsPalm(slots[0])
       ELSE UNCHANGED <<touch_start_coords, is_palm_rejected>>
    /\ written' = <<>>
    /\ UNCHANGED <<slots, prev_slots, active_slot, is_physically_clicked,
                   active_physical_button, last_scroll_time, scroll_acc_y, scroll_acc_x>>

\* BTN_TOUCH with value 1; fc is the finger count after the BTN_TOOL_* chain
TouchStart(fc) ==
    /\ touch_start_time' = now
    /\ max_fingers_during_touch' = fc
    /\ max_pressure_during_touch' = 0
    /\ is_scrolling' = FALSE
    /\ gesture_triggered' = FALSE
    /\ gesture_acc_x' = 0
    /\ gesture_acc_y' = 0
    /\ IF Has(slots, 0)
       THEN /\ touch_start_coords' = <<slots[0].x, slots[0].y>>
            /\ is_palm_rejected' = IsPalm(slots[0])
       ELSE UNCHANGED <<touch_start_coords, is_palm_rejected>>
    /\ prev_slots' = NoSlots
    /\ written' = <<>>
    /\ UNCHANGED <<slots, active_slot, is_physically_clicked, active_physical_button,
                   last_scroll_time, scroll_acc_y, scroll_acc_x>>

\* the last known position of slot 0 at touch end
LastCoords ==
    IF Has(prev_slots, 0) THEN <<prev_slots[0].x, prev_slots[0].y>>
    ELSE touch_start_coords

\* dist < TAP_MOVEMENT_LIMIT, with dist the square root of the sum of squares
WithinTapLimit(last) ==
    (last[1] - touch_start_coords[1]) * (last[1] - touch_start_coords[1])
    + (last[2] - touch_start_coords[2]) * (last[2] - touch_start_coords[2])
    < TAP_MOVEMENT_LIMIT * TAP_MOVEMENT_LIMIT

\* ClickButton with the zone test ahead of the finger count
ClickButtonZoneFirst(mf, last) ==
    IF InZone(last[1], last[2]) THEN "BTN_RIGHT"
    ELSE IF mf = 2 THEN "BTN_RIGHT"
    ELSE IF mf = 3 THEN "BTN_MIDDLE"
    ELSE "BTN_LEFT"

\* click_btn, from the finger maximum mf and the last position
ClickButton(mf, last) ==
    IF mf = 2 THEN "BTN_RIGHT"
    ELSE IF mf = 3 THEN "BTN_MIDDLE"
    ELSE IF InZone(last[1], last[2]) THEN "BTN_RIGHT"
    ELSE "BTN_LEFT"

\* TapFires without the palm gate
TapFiresOnPalm ==
    /\ now - touch_start_time < TAP_TIMEOUT
    /\ ~(max_pressure_during_touch > PRESS_THRESHOLD)
    /\ now - last_scroll_time > COOLDOWN_AFTER_SCROLL
    /\ ~gesture_triggered
    /\ WithinTapLimit(LastCoords)

\* TapFires with a release at exactly TAP_TIMEOUT still a tap
TapFiresAtTimeout ==
    /\ ~is_palm_rejected
    /\ now - touch_start_time <= TAP_TIMEOUT
    /\ ~(max_pressure_during_touch > PRESS_THRESHOLD)
    /\ now - last_scroll_time > COOLDOWN_AFTER_SCROLL
    /\ ~gesture_triggered
    /\ WithinTapLimit(LastCoords)

\* the condition under which the release is a tap
TapFires ==
    /\ ~is_palm_rejected
    /\ now - touch_start_time < TAP_TIMEOUT
    /\ ~(max_pressure_during_touch > PRESS_THRESHOLD)
    /\ now - last_scroll_time > COOLDOWN_AFTER_SCROLL
    /\ ~gesture_triggered
    /\ WithinTapLimit(LastCoords)

\* BTN_TOUCH with another value: the release; mf is max_fingers_during_touch by then
TouchEnd(mf) ==
    /\ written' =
         IF TapFires
         THEN LET b == ClickButton(mf, LastCoords)
              IN  <<Key(b, 1), Syn, Key(b, 0), Syn>>
         ELSE <<>>
    /\ max_fingers_during_touch' = mf
    /\ UNCHANGED <<slots, prev_slots, active_slot, max_pressure_during_touch,
                   touch_start_time, touch_start_coords, is_physically_clicked,
                   active_physical_button, last_scroll_time, scroll_acc_y, scroll_acc_x,
                   is_scrolling, is_palm_rejected, gesture_acc_x, gesture_acc_y,
                   gesture_triggered>>

\* the EV_KEY branch of the loop for one event (code, value)
HandleKey(code, value) ==
    LET fc == FingerCount(code, value)
        mf == MaxFingers(fc)
    IN  /\ current_finger_count' = fc
        /\ event' = (IF code # "BTN_TOUCH" THEN "key"
                     ELSE IF value = 1 THEN "touch_down" ELSE "touch_up")
        /\ now' = now
        /\ IF code = "BTN_TOUCH"
           THEN IF value = 1 THEN TouchStart(fc) ELSE TouchEnd(mf)
           ELSE /\ max_fingers_during_touch' = mf
                /\ written' = <<>>
                /\ UNCHANGED <<slots, prev_slots, active_slot, max_pressure_during_touch,
                               touch_start_time, touch_start_coords,
                               is_physically_clicked, active_physical_button,
                               last_scroll_time, scroll_acc_y, scroll_acc_x, is_scrolling,
                               is_palm_rejected, gesture_acc_x, gesture_acc_y,
                               gesture_triggered>>

\* ---------------------------------------------------------------- EV_SYN / SYN_REPORT
\* `pressure = slots[0]['p'] if 0 in slots else 0`
Pressure == IF Has(slots, 0) THEN slots[0].p ELSE 0

PhysPress == ~is_physically_clicked /\ Pressure > PRESS_THRESHOLD

\* PhysRelease without the band: released as soon as the pressure is below the press level
PhysReleaseNoBand == is_physically_clicked /\ Pressure < PRESS_THRESHOLD

PhysRelease == is_physically_clicked /\ Pressure < RELEASE_THRESHOLD

\* the button a physical press takes
PhysButton ==
    IF Has(slots, 0) /\ InZone(slots[0].x, slots[0].y) THEN "BTN_RIGHT" ELSE "BTN_LEFT"

\* what the physical click logic writes
PhysWritten ==
    IF PhysPress THEN <<Key(PhysButton, 1)>>
    ELSE IF PhysRelease /\ active_physical_button # "None"
         THEN <<Key(active_physical_button, 0)>>
    ELSE <<>>

\* the guard of the movement block, and its deltas of slot 0
HasDelta == Has(slots, 0) /\ Has(prev_slots, 0)
Dx == slots[0].x - prev_slots[0].x
Dy == slots[0].y - prev_slots[0].y

\* GestureBranch that does not look at gesture_triggered
GestureBranchAgain == HasDelta /\ current_finger_count = 3

GestureBranch == HasDelta /\ current_finger_count = 3 /\ ~gesture_triggered
ScrollBranch == HasDelta /\ ~GestureBranch /\ current_finger_count = 2
\* MoveBranch that looks at the finger count alone
MoveBranchAlways ==
    HasDelta /\ ~GestureBranch /\ ~ScrollBranch /\ current_finger_count = 1

MoveBranch ==
    /\ HasDelta /\ ~GestureBranch /\ ~ScrollBranch
    /\ current_finger_count = 1 /\ ~is_scrolling /\ ~gesture_triggered

\* Chord with the keys released in the order they were pressed
ChordSameOrder(gx, gy) ==
    IF gx > GESTURE_DISTANCE_THRESHOLD
    THEN <<Key("KEY_LEFTALT", 1), Key("KEY_LEFTSHIFT", 1), Key("KEY_TAB", 1), Syn,
           Key("KEY_LEFTALT", 0), Key("KEY_LEFTSHIFT", 0), Key("KEY_TAB", 0)>>
    ELSE IF gx < -GESTURE_DISTANCE_THRESHOLD
    THEN <<Key("KEY_LEFTALT", 1), Key("KEY_TAB", 1), Syn,
           Key("KEY_LEFTALT", 0), Key("KEY_TAB", 0)>>
    ELSE IF gy < -GESTURE_DISTANCE_THRESHOLD
    THEN <<Key("KEY_LEFTMETA", 1), Syn, Key("KEY_LEFTMETA", 0)>>
    ELSE IF gy > GESTURE_DISTANCE_THRESHOLD
    THEN <<Key("KEY_LEFTMETA", 1), Key("KEY_D", 1), Syn,
           Key("KEY_LEFTMETA", 0), Key("KEY_D", 0)>>
    ELSE <<>>

\* the chord of the gesture branch for the accumulated (gx, gy); <<>> when none fires
Chord(gx, gy) ==
    IF gx > GESTURE_DISTANCE_THRESHOLD
    THEN <<Key("KEY_LEFTALT", 1), Key("KEY_LEFTSHIFT", 1), Key("KEY_TAB", 1), Syn,
           Key("KEY_TAB", 0), Key("KEY_LEFTSHIFT", 0), Key("KEY_LEFTALT", 0)>>
    ELSE IF gx < -GESTURE_DISTANCE_THRESHOLD
    THEN <<Key("KEY_LEFTALT", 1), Key("KEY_TAB", 1), Syn,
           Key("KEY_TAB", 0), Key("KEY_LEFTALT", 0)>>
    ELSE IF gy < -GESTURE_DISTANCE_THRESHOLD
    THEN <<Key("KEY_LEFTMETA", 1), Syn, Key("KEY_LEFTMETA", 0)>>
    ELSE IF gy > GESTURE_DISTANCE_THRESHOLD
    THEN <<Key("KEY_LEFTMETA", 1), Key("KEY_D", 1), Syn,
           Key("KEY_D", 0), Key("KEY_LEFTMETA", 0)>>
    ELSE <<>>

\* Ticks as a floor division, which rounds a negative quotient away from zero
TicksFloor(acc) == acc \div SCROLL_DIVIDER

\* `abs(acc) > SCROLL_DIVIDER` and `ticks = int(acc / SCROLL_DIVIDER)`
ScrollDue(acc) == Abs(acc) > SCROLL_DIVIDER
Ticks(acc) == TruncDiv(acc, SCROLL_DIVIDER)
\* ScrollRest that takes off one tick however many were written
ScrollRestOneTick(acc) ==
    IF ScrollDue(acc)
    THEN (IF acc > 0 THEN acc - SCROLL_DIVIDER ELSE acc + SCROLL_DIVIDER)
    ELSE acc

\* ScrollRest as a modulo, which is not what is left for a negative accumulator
ScrollRestModulo(acc) == IF ScrollDue(acc) THEN acc % SCROLL_DIVIDER ELSE acc

\* the accumulator after `acc -= ticks * SCROLL_DIVIDER`
ScrollRest(acc) == IF ScrollDue(acc) THEN acc - Ticks(acc) * SCROLL_DIVIDER ELSE acc

Direction == IF NATURAL_SCROLLING THEN 1 ELSE -1

\* what the scroll branch writes for the accumulated (sx, sy)
ScrollWritten(sx, sy) ==
    (IF ScrollDue(sy) THEN <<Rel("REL_WHEEL", Ticks(sy) * Direction)>> ELSE <<>>)
    \o (IF ScrollDue(sx) THEN <<Rel("REL_HWHEEL", Ticks(sx) * (-Direction))>> ELSE <<>>)

\* int(d * MOVE_SENSITIVITY * accel): 0.6 and 1.5 as the fractions 6/10 and 15/10
Scaled(d, speed) ==
    IF speed > ACCEL_SPEED THEN TruncDiv(d * 6 * 15, 100) ELSE TruncDiv(d * 6, 10)

\* MoveGate with a delta of exactly JUMP_LIMIT let through
MoveGateInclusive(p, dx, dy) ==
    /\ ~(p < MIN_MOVE_PRESSURE)
    /\ ~(p < LOW_PRESSURE_THRESHOLD /\ Abs(dx) + Abs(dy) < SMALL_MOVE_CUTOFF)
    /\ Abs(dx) <= JUMP_LIMIT /\ Abs(dy) <= JUMP_LIMIT

\* the noise gates and the sanity bound of the one-finger branch
MoveGate(p, dx, dy) ==
    /\ ~(p < MIN_MOVE_PRESSURE)
    /\ ~(p < LOW_PRESSURE_THRESHOLD /\ Abs(dx) + Abs(dy) < SMALL_MOVE_CUTOFF)
    /\ Abs(dx) < JUMP_LIMIT /\ Abs(dy) < JUMP_LIMIT

MoveWritten ==
    IF MoveGate(slots[0].p, Dx, Dy)
    THEN <<Rel("REL_X", Scaled(Dx, Abs(Dx) + Abs(Dy))),
           Rel("REL_Y", Scaled(Dy, Abs(Dx) + Abs(Dy)))>>
    ELSE <<>>

\* the SYN_REPORT branch below the palm test
Frame ==
    /\ is_physically_clicked' =
         IF PhysPress THEN TRUE ELSE IF PhysRelease THEN FALSE ELSE is_physically_clicked
    /\ active_physical_button' =
         IF PhysPress THEN PhysButton
         ELSE IF PhysRelease THEN "None" ELSE active_physical_button
    /\ IF GestureBranch
       THEN LET gx == gesture_acc_x + Dx
                gy == gesture_acc_y + Dy
            IN  /\ gesture_acc_x' = gx
                /\ gesture_acc_y' = gy
                /\ gesture_triggered' = (Chord(gx, gy) # <<>>)
                /\ written' = PhysWritten \o Chord(gx, gy) \o <<Syn>>
                /\ UNCHANGED <<is_scrolling, scroll_acc_x, scroll_acc_y, last_scroll_time>>
       ELSE IF ScrollBranch
       THEN LET sy == scroll_acc_y + Dy
                sx == scroll_acc_x + Dx
            IN  /\ is_scrolling' = TRUE
                /\ scroll_acc_y' = ScrollRest(sy)
                /\ scroll_acc_x' = ScrollRest(sx)
                /\ last_scroll_time' =
                     IF ScrollDue(sy) \/ ScrollDue(sx) THEN now ELSE last_scroll_time
                /\ written' = PhysWritten \o ScrollWritten(sx, sy) \o <<Syn>>
                /\ UNCHANGED <<gesture_acc_x, gesture_acc_y, gesture_triggered>>
       ELSE /\ written' = PhysWritten \o (IF MoveBranch THEN MoveWritten ELSE <<>>)
                            \o <<Syn>>
            /\ UNCHANGED <<is_scrolling, scroll_acc_x, scroll_acc_y, last_scroll_time,
                           gesture_acc_x, gesture_acc_y, gesture_triggered>>
    /\ prev_slots' = slots

\* HandleSyn without the `continue`: the frame is evaluated whatever the palm flag says
HandleSynAlways ==
    /\ event' = "report"
    /\ Frame
    /\ UNCHANGED <<slots, active_slot, current_finger_count, max_fingers_during_touch,
                   max_pressure_during_touch, touch_start_time, touch_start_coords,
                   is_palm_rejected, now>>

\* the whole SYN_REPORT branch: a palm-rejected frame is skipped by `continue`
HandleSyn ==
    /\ event' = "report"
    /\ IF is_palm_rejected
       THEN /\ written' = <<>>
            /\ UNCHANGED <<prev_slots, is_physically_clicked, active_physical_button,
                           is_scrolling, scroll_acc_x, scroll_acc_y, last_scroll_time,
                           gesture_acc_x, gesture_acc_y, gesture_triggered>>
       ELSE Frame
    /\ UNCHANGED <<slots, active_slot, current_finger_count, max_fingers_during_touch,
                   max_pressure_during_touch, touch_start_time, touch_start_coords,
                   is_palm_rejected, now>>

\* ---------------------------------------------------------------- history
KeyboardKeys == {"KEY_LEFTMETA", "KEY_TAB", "KEY_LEFTALT", "KEY_LEFTSHIFT", "KEY_D"}
Buttons == {"BTN_LEFT", "BTN_RIGHT", "BTN_MIDDLE"}

IsKeyDown(e) == e[1] = "EV_KEY" /\ e[2] \in KeyboardKeys /\ e[3] = 1
IsButton(e) == e[1] = "EV_KEY" /\ e[2] \in Buttons
IsMotion(e) == e[1] = "EV_REL" /\ e[2] \in {"REL_X", "REL_Y"}

\* chords in w: the runs of key-down events
ChordsIn(w) ==
    Cardinality({i \in 1..Len(w) : IsKeyDown(w[i]) /\ (i = 1 \/ ~IsKeyDown(w[i - 1]))})

\* the sum of the values written for the wheel `code` in w
RECURSIVE WheelSum(_, _)
WheelSum(w, code) ==
    IF w = <<>> THEN 0
    ELSE (IF Head(w)[1] = "EV_REL" /\ Head(w)[2] = code THEN Head(w)[3] ELSE 0)
         + WheelSum(Tail(w), code)

\* the button held after the button events of w, starting from `held`
RECURSIVE HeldAfter(_, _)
HeldAfter(held, w) ==
    IF w = <<>> THEN held
    ELSE HeldAfter(IF IsButton(Head(w))
                   THEN (IF Head(w)[3] = 1 THEN Head(w)[2] ELSE "None")
                   ELSE held,
                   Tail(w))

IsTouchDown(ev) == ev = "touch_down"
IsTouchUp(ev) == ev = "touch_up"
IsReport(ev) == ev = "report"

\* a report boundary the driver evaluates with two fingers down and a delta of slot 0
TwoFingerFrame ==
    ~is_palm_rejected /\ current_finger_count = 2 /\ Has(slots, 0) /\ Has(prev_slots, 0)

\* w holds the down and the up of one button, as a tap click does
TapIn(w) ==
    \E i, j \in 1..Len(w) :
        i < j /\ IsButton(w[i]) /\ w[i][3] = 1 /\ w[j] = Key(w[i][2], 0)

\* w holds a button-down
DownIn(w) == \E i \in 1..Len(w) : IsButton(w[i]) /\ w[i][3] = 1

\* the history after the step that processed event' and wrote written'; the last four
\* variables are kept only in the specifications whose properties read them, as h says
Log(h) ==
    /\ h_palm' =
         IF IsTouchDown(event')
         THEN Has(slots, 0) /\ slots[0].y < PALM_ZONE_TOP_Y
                            /\ slots[0].p > PALM_PRESSURE_THRESHOLD
         ELSE IF IsTouchUp(event') THEN FALSE ELSE h_palm
    /\ h_chords' = IF IsTouchDown(event') THEN 0 ELSE h_chords + ChordsIn(written')
    /\ h_fingers' =
         IF IsTouchDown(event') \/ current_finger_count' > h_fingers
         THEN current_finger_count' ELSE h_fingers
    /\ h_phys' = IF IsReport(event') THEN HeldAfter(h_phys, written') ELSE h_phys
    /\ h_owed_y' =
         h_owed_y + (IF IsReport(event') /\ TwoFingerFrame THEN Dy ELSE 0)
                  - SCROLL_DIVIDER * WheelSum(written', "REL_WHEEL")
    /\ h_owed_x' =
         h_owed_x + (IF IsReport(event') /\ TwoFingerFrame THEN Dx ELSE 0)
                  + SCROLL_DIVIDER * WheelSum(written', "REL_HWHEEL")
    /\ h_frame' =
         IF "frames" \notin h THEN h_frame
         ELSE IF IsTouchDown(event') THEN "fresh"
         ELSE IF IsReport(event') THEN (IF h_frame = "fresh" THEN "first" ELSE "later")
         ELSE h_frame
    /\ h_scrolled' =
         IF "frames" \notin h THEN h_scrolled
         ELSE IF IsTouchDown(event') THEN FALSE
         ELSE h_scrolled \/ (IsReport(event') /\ TwoFingerFrame)
    /\ h_tapped' =
         IF "taps" \notin h THEN h_tapped
         ELSE IF IsTouchDown(event') THEN FALSE
         ELSE h_tapped \/ (IsTouchUp(event') /\ TapIn(written'))
    /\ h_pressed' =
         IF "presses" \notin h THEN h_pressed
         ELSE IF IsTouchDown(event') THEN "open"
         ELSE IF IsTouchUp(event') THEN "closed"
         ELSE IF h_pressed = "open" /\ IsReport(event') /\ DownIn(written') THEN "pressed"
         ELSE h_pressed

\* ---------------------------------------------------------------- the loop
Init ==
    /\ slots = NoSlots
    /\ prev_slots = NoSlots
    /\ active_slot = 0
    /\ current_finger_count = 0
    /\ max_fingers_during_touch = 0
    /\ max_pressure_during_touch = 0
    /\ touch_start_time = 0
    /\ touch_start_coords = <<0, 0>>
    /\ is_physically_clicked = FALSE
    /\ active_physical_button = "None"
    /\ last_scroll_time = 0
    /\ scroll_acc_y = 0
    /\ scroll_acc_x = 0
    /\ is_scrolling = FALSE
    /\ is_palm_rejected = FALSE
    /\ gesture_acc_x = 0
    /\ gesture_acc_y = 0
    /\ gesture_triggered = FALSE
    /\ now = StartNow
    /\ event = "none"
    /\ written = <<>>
    /\ h_palm = FALSE
    /\ h_chords = 0
    /\ h_fingers = 0
    /\ h_phys = "None"
    /\ h_owed_y = 0
    /\ h_owed_x = 0
    /\ h_frame = "later"
    /\ h_scrolled = FALSE
    /\ h_tapped = FALSE
    /\ h_pressed = "closed"

AbsSlot(h, v) == HandleAbs("ABS_MT_SLOT", v) /\ Log(h)
AbsPositionX(h, v) == HandleAbs("ABS_MT_POSITION_X", v) /\ Log(h)
AbsPositionY(h, v) == HandleAbs("ABS_MT_POSITION_Y", v) /\ Log(h)
AbsPressure(h, v) == HandleAbs("ABS_MT_PRESSURE", v) /\ Log(h)
AbsTrackingId(h, v) == HandleAbs("ABS_MT_TRACKING_ID", v) /\ Log(h)
\* an EV_ABS code the loop does not name, such as ABS_MT_TOUCH_MAJOR
AbsOther(h) == HandleAbs("ABS_MT_TOUCH_MAJOR", 1) /\ Log(h)

KeyTool(h, code, v) == HandleKey(code, v) /\ Log(h)
KeyTouch(h, v) == HandleKey("BTN_TOUCH", v) /\ Log(h)
\* an EV_KEY code the loop does not name, such as BTN_TOOL_QUINTTAP
KeyOther(h, v) == HandleKey("BTN_TOOL_QUINTTAP", v) /\ Log(h)

SynReport(h) == HandleSyn /\ Log(h)

\* an event of another type, or an EV_SYN that is no SYN_REPORT: no branch takes it
Ignored(h) ==
    /\ event' = "ignored"
    /\ written' = <<>>
    /\ UNCHANGED <<driver, now>>
    /\ Log(h)

\* time passes while read_loop() waits for the next event
Tick(h, last) ==
    /\ now + TickStep <= last
    /\ now' = now + TickStep
    /\ event' = "none"
    /\ written' = <<>>
    /\ UNCHANGED driver
    /\ Log(h)

\* the loop fed from the input sets of E
Next(E) ==
    \/ \E v \in E.slot : AbsSlot(E.track, v)
    \/ \E v \in E.x : AbsPositionX(E.track, v)
    \/ \E v \in E.y : AbsPositionY(E.track, v)
    \/ \E v \in E.p : AbsPressure(E.track, v)
    \/ \E v \in E.id : AbsTrackingId(E.track, v)
    \/ AbsOther(E.track)
    \/ \E c \in E.tool, v \in {0, 1} : KeyTool(E.track, c, v)
    \/ \E v \in {0, 1} : KeyTouch(E.track, v)
    \/ \E v \in {1} : KeyOther(E.track, v)
    \/ SynReport(E.track)
    \/ Ignored(E.track)
    \/ Tick(E.track, StartNow + E.ticks * TickStep)

\* ---------------------------------------------------------------- input sets
\* Each specification feeds the loop from small sets of values, chosen around the
\* thresholds its properties turn on; a new slot adds x = 0, y = 0, p = 0 to them.

\* palm test: y on both sides of PALM_ZONE_TOP_Y, p above PALM_PRESSURE_THRESHOLD and
\* above PRESS_THRESHOLD
PalmEnv ==
    [slot |-> {0}, x |-> {0}, y |-> {200, 600}, p |-> {50, 150}, id |-> {-1},
     tool |-> {"BTN_TOOL_FINGER"}, ticks |-> IdleTicks,
     track |-> {}]

\* pressure below, inside and above the band; a position inside the right-click zone
ClickEnv ==
    [slot |-> {0}, x |-> {3100}, y |-> {1900}, p |-> {50, 100, 150}, id |-> {-1},
     tool |-> {"BTN_TOOL_FINGER"}, ticks |-> IdleTicks,
     track |-> {"presses"}]

\* two-finger deltas of +-60 and +-100: more than one tick, with remainders of both signs
ScrollEnv ==
    [slot |-> {0}, x |-> {100}, y |-> {60}, p |-> {0}, id |-> {-1},
     tool |-> {"BTN_TOOL_DOUBLETAP"}, ticks |-> IdleTicks,
     track |-> {}]

\* three-finger deltas of +-60: two frames the same way pass GESTURE_DISTANCE_THRESHOLD
GestureEnv ==
    [slot |-> {0}, x |-> {60}, y |-> {60}, p |-> {0}, id |-> {-1},
     tool |-> {"BTN_TOOL_TRIPLETAP"}, ticks |-> IdleTicks,
     track |-> {}]

\* taps: a delta past TAP_MOVEMENT_LIMIT that also scrolls and swipes, a pressure past
\* PRESS_THRESHOLD that is also a palm's, and a clock that passes both time limits
TapEnv ==
    [slot |-> {0}, x |-> {120}, y |-> {0}, p |-> {150}, id |-> {-1},
     tool |-> {"BTN_TOOL_DOUBLETAP", "BTN_TOOL_TRIPLETAP"}, ticks |-> TapTicks,
     track |-> {}]

\* the button of a tap: every finger count, positions in and out of the zone
ButtonEnv ==
    [slot |-> {0}, x |-> {0, 3200}, y |-> {2000}, p |-> {0}, id |-> {7},
     tool |-> ToolCodes, ticks |-> IdleTicks,
     track |-> {"taps"}]

\* one-finger motion: deltas of 1, 3, 399 and 400, pressures 1, 10 and 20
MoveEnv ==
    [slot |-> {0}, x |-> {1, 400}, y |-> {3}, p |-> {1, 10, 20}, id |-> {-1},
     tool |-> {"BTN_TOOL_FINGER"}, ticks |-> IdleTicks,
     track |-> {}]

\* one, two and three fingers over deltas of +-120: motion, wheel ticks and chords
MixEnv ==
    [slot |-> {0}, x |-> {120}, y |-> {0}, p |-> {20}, id |-> {-1},
     tool |-> {"BTN_TOOL_FINGER", "BTN_TOOL_DOUBLETAP", "BTN_TOOL_TRIPLETAP"},
     ticks |-> IdleTicks,
     track |-> {"frames"}]

SpecPalm == Init /\ [][Next(PalmEnv)]_vars
SpecClick == Init /\ [][Next(ClickEnv)]_vars
SpecScroll == Init /\ [][Next(ScrollEnv)]_vars
SpecGesture == Init /\ [][Next(GestureEnv)]_vars
SpecTap == Init /\ [][Next(TapEnv)]_vars
SpecButton == Init /\ [][Next(ButtonEnv)]_vars
SpecMove == Init /\ [][Next(MoveEnv)]_vars
SpecMix == Init /\ [][Next(MixEnv)]_vars

\* ---------------------------------------------------------------- properties
\* what was written, by kind
IsTapClick(w) == \E b \in Buttons : w = <<Key(b, 1), Syn, Key(b, 0), Syn>>
HasMotion(w) == \E i \in 1..Len(w) : IsMotion(w[i])
ButtonsOf(w) == SelectSeq(w, IsButton)

\* C1: palm rejection is total.  From a touch-down at which slot 0 is present with
\* y < PALM_ZONE_TOP_Y and pressure > PALM_PRESSURE_THRESHOLD, until and including
\* the touch-up of that session, no step of the driver writes anything.
C1_PalmIsTotal == [][h_palm => written' = <<>>]_vars

\* a report boundary of a palm session at which the click logic would have pressed
C1_Witness ==
    /\ event = "report" /\ h_palm /\ written = <<>>
    /\ ~is_physically_clicked /\ Pressure > PRESS_THRESHOLD

\* C2: the physical click has no chatter.  At a report boundary the click logic writes
\* at most one button event: a button-down only when it is not pressed, holds no button
\* and the pressure of slot 0 is above PRESS_THRESHOLD; a button-up only when it is
\* pressed and the pressure is below RELEASE_THRESHOLD, and then for the button it
\* holds; nothing while the pressure is within the band.  So downs and ups alternate,
\* a down first, each up for the button of the down before it.
C2_NoChatter ==
    [][IsReport(event') =>
         LET b == ButtonsOf(written')
         IN  /\ Len(b) <= 1
             /\ \A i \in 1..Len(b) :
                  IF b[i][3] = 1
                  THEN /\ ~is_physically_clicked /\ h_phys = "None"
                       /\ Pressure > PRESS_THRESHOLD
                  ELSE /\ is_physically_clicked /\ h_phys = b[i][2]
                       /\ Pressure < RELEASE_THRESHOLD
             /\ (Pressure >= RELEASE_THRESHOLD /\ Pressure <= PRESS_THRESHOLD)
                  => b = <<>>]_vars

\* a frame that released the right button, pressed by an earlier frame
C2_Witness ==
    event = "report" /\ ButtonsOf(written) = <<Key("BTN_RIGHT", 0)>> /\ h_phys = "None"

\* C3: the scroll accumulators lose no delta.  The deltas of all two-finger frames,
\* less SCROLL_DIVIDER for every wheel tick written (ticks counted before the polarity),
\* are what the accumulator holds, on both axes.
C3_NoDeltaLost == h_owed_y = scroll_acc_y /\ h_owed_x = scroll_acc_x

\* a frame that wrote ticks for a negative sum and kept a remainder
C3_Witness ==
    /\ event = "report" /\ scroll_acc_y < 0
    /\ \E i \in 1..Len(written) :
         written[i][1] = "EV_REL" /\ written[i][2] = "REL_WHEEL" /\ written[i][3] < 0

\* C4: between one touch-down and the next at most one chord is written.
C4_OneGesturePerSession == h_chords <= 1

\* a three-finger frame with a delta of slot 0, after the chord of its session
C4_Witness ==
    /\ event = "report" /\ h_chords = 1 /\ current_finger_count = 3
    /\ written = <<Syn>> /\ Has(slots, 0) /\ Abs(gesture_acc_x) > GESTURE_DISTANCE_THRESHOLD

\* C5: at the touch-up of a session that is not palm-rejected a tap click is written
\* (down, marker, up of the same button, marker) exactly when the release comes less
\* than TAP_TIMEOUT after the touch-down, the pressure since the touch-down never went
\* above PRESS_THRESHOLD, the last scroll tick is more than COOLDOWN_AFTER_SCROLL ago,
\* no chord was written in the session, and the last known position of slot 0 is less
\* than TAP_MOVEMENT_LIMIT from the start coordinates; otherwise nothing is written.
C5_TapIff ==
    (event = "touch_up" /\ ~is_palm_rejected) =>
        LET last == IF Has(prev_slots, 0) THEN <<prev_slots[0].x, prev_slots[0].y>>
                    ELSE touch_start_coords
            ddx == last[1] - touch_start_coords[1]
            ddy == last[2] - touch_start_coords[2]
            tap == /\ now - touch_start_time < TAP_TIMEOUT
                   /\ max_pressure_during_touch <= PRESS_THRESHOLD
                   /\ now - last_scroll_time > COOLDOWN_AFTER_SCROLL
                   /\ h_chords = 0
                   /\ ddx * ddx + ddy * ddy < TAP_MOVEMENT_LIMIT * TAP_MOVEMENT_LIMIT
        IN  IF tap THEN IsTapClick(written) ELSE written = <<>>

\* a tap written after an earlier scroll, once the cooldown has passed
C5_Witness ==
    /\ event = "touch_up" /\ ~is_palm_rejected /\ IsTapClick(written)
    /\ last_scroll_time > 0

\* C6: the button of a tap click is the right one when the largest finger count of
\* the session is 2, the middle one when it is 3, and otherwise the right one when the
\* last known position of slot 0 has x > RIGHT_CLICK_ZONE_X and y > BOTTOM_ZONE_Y,
\* else the left one.
C6_TapButton ==
    (event = "touch_up" /\ IsTapClick(written)) =>
        LET last == IF Has(prev_slots, 0) THEN <<prev_slots[0].x, prev_slots[0].y>>
                    ELSE touch_start_coords
        IN  written[1][2] =
              (CASE h_fingers = 2 -> "BTN_RIGHT"
                 [] h_fingers = 3 -> "BTN_MIDDLE"
                 [] h_fingers \notin {2, 3} /\ last[1] > RIGHT_CLICK_ZONE_X
                                            /\ last[2] > BOTTOM_ZONE_Y -> "BTN_RIGHT"
                 [] OTHER -> "BTN_LEFT")

\* a three-finger tap inside the bottom-right zone: the middle button
C6_Witness ==
    /\ event = "touch_up" /\ IsTapClick(written) /\ h_fingers = 3
    /\ Has(prev_slots, 0) /\ InZone(prev_slots[0].x, prev_slots[0].y)

\* C7: at a report boundary that is not palm-rejected, with one finger, slot 0 in both
\* generations, no scrolling and no gesture in the session, REL_X/REL_Y are written
\* exactly when the pressure of slot 0 is at least MIN_MOVE_PRESSURE, it is not both
\* below LOW_PRESSURE_THRESHOLD and moving less than SMALL_MOVE_CUTOFF, and both
\* |dx| and |dy| are below 400; a larger delta writes no motion at all.
C7_MotionIff ==
    [][(/\ IsReport(event') /\ ~is_palm_rejected /\ current_finger_count = 1
        /\ Has(slots, 0) /\ Has(prev_slots, 0) /\ ~is_scrolling /\ ~gesture_triggered)
       => LET p == slots[0].p
              dx == slots[0].x - prev_slots[0].x
              dy == slots[0].y - prev_slots[0].y
          IN  HasMotion(written') <=>
                /\ p >= MIN_MOVE_PRESSURE
                /\ ~(p < LOW_PRESSURE_THRESHOLD /\ Abs(dx) + Abs(dy) < SMALL_MOVE_CUTOFF)
                /\ Abs(dx) < JUMP_LIMIT /\ Abs(dy) < JUMP_LIMIT]_vars

\* motion written for a light touch that moved far enough
C7_Witness ==
    /\ event = "report" /\ HasMotion(written) /\ current_finger_count = 1
    /\ slots[0].p < LOW_PRESSURE_THRESHOLD

\* C8, as claimed: every report boundary ends with one synchronization marker and
\* leaves the previous generation equal to the current one.
C8_EveryFrameCommits ==
    event = "report" =>
        /\ written # <<>> /\ written[Len(written)] = Syn
        /\ prev_slots = slots

\* C8, amended: a report boundary met while the palm flag is clear ends with one
\* synchronization marker (the only one apart from the marker inside a chord) and copies
\* the current generation into the previous one; a report boundary met while the palm
\* flag is set writes nothing and leaves the previous generation as it was.
C8_FrameCommitsUnlessPalm ==
    [][IsReport(event') =>
         IF is_palm_rejected
         THEN written' = <<>> /\ prev_slots' = prev_slots
         ELSE /\ written' # <<>> /\ written'[Len(written')] = Syn
              /\ Cardinality({i \in 1..Len(written') : written'[i] = Syn})
                   = 1 + ChordsIn(written')
              /\ prev_slots' = slots /\ slots' = slots]_vars

\* a frame that wrote a button event and its marker, and committed a moved slot 0
C8_Witness ==
    /\ event = "report" /\ ~is_palm_rejected /\ Len(written) = 2
    /\ written[2] = Syn /\ Has(slots, 0) /\ prev_slots = slots /\ slots[0].y > 0

\* C9, as claimed: right after a touch-down the four accumulators are 0 and the
\* gesture and scrolling flags are false.
C9_TouchDownResetsAll ==
    event = "touch_down" =>
        /\ scroll_acc_x = 0 /\ scroll_acc_y = 0
        /\ gesture_acc_x = 0 /\ gesture_acc_y = 0
        /\ ~gesture_triggered /\ ~is_scrolling

\* C10, as claimed: right after a touch-down the start coordinates are those of slot 0,
\* or (0, 0) without a slot 0, and the palm flag is set exactly when slot 0 is there
\* with y < PALM_ZONE_TOP_Y and pressure > PALM_PRESSURE_THRESHOLD.
C10_TouchDownRecomputes ==
    event = "touch_down" =>
        /\ touch_start_coords =
             (IF Has(slots, 0) THEN <<slots[0].x, slots[0].y>> ELSE <<0, 0>>)
        /\ is_palm_rejected =
             (/\ Has(slots, 0) /\ slots[0].y < PALM_ZONE_TOP_Y
              /\ slots[0].p > PALM_PRESSURE_THRESHOLD)

\* the polarity of the vertical wheel
Polarity == IF NATURAL_SCROLLING THEN 1 ELSE -1

\* C11, as claimed: in a two-finger frame that brings |scroll_y| above SCROLL_DIVIDER
\* the vertical ticks written are floor(scroll_y / SCROLL_DIVIDER) times the polarity,
\* and the accumulator goes down by that count times SCROLL_DIVIDER.
C11_TicksAreFloor ==
    [][(IsReport(event') /\ TwoFingerFrame
        /\ Abs(scroll_acc_y + Dy) > SCROLL_DIVIDER)
       => LET sy == scroll_acc_y + Dy
              n == sy \div SCROLL_DIVIDER
          IN  /\ WheelSum(written', "REL_WHEEL") = n * Polarity
              /\ scroll_acc_y' = sy - n * SCROLL_DIVIDER]_vars

\* C11, amended: the ticks written are the quotient scroll_y / SCROLL_DIVIDER truncated
\* toward zero (the floor only for a positive accumulator), times the polarity, and
\* the accumulator goes down by exactly that count times SCROLL_DIVIDER.
C11_TicksAreTruncated ==
    [][(IsReport(event') /\ TwoFingerFrame
        /\ Abs(scroll_acc_y + Dy) > SCROLL_DIVIDER)
       => LET sy == scroll_acc_y + Dy
              n == IF sy >= 0 THEN sy \div SCROLL_DIVIDER
                   ELSE -((-sy) \div SCROLL_DIVIDER)
          IN  /\ WheelSum(written', "REL_WHEEL") = n * Polarity
              /\ scroll_acc_y' = sy - n * SCROLL_DIVIDER]_vars

\* a frame that wrote one tick back for an accumulated -60 and kept -20
C11_Witness ==
    /\ event = "report" /\ scroll_acc_y = -20 /\ is_scrolling
    /\ \E i \in 1..Len(written) : written[i] = Rel("REL_WHEEL", -1 * Polarity)

\* w holds no motion, no wheel tick and no key of a chord
Quiet(w) == \A i \in 1..Len(w) : w[i][1] # "EV_REL" /\ w[i][2] \notin KeyboardKeys

\* C12: the first report boundary after a touch-down writes no motion, no wheel tick
\* and no chord, wherever the slots are; and no report boundary writes any of them
\* unless slot 0 is in both the current and the previous generation.
C12_FirstFrameIsQuiet ==
    [][IsReport(event') =>
         /\ h_frame = "fresh" => Quiet(written')
         /\ ~(Has(slots, 0) /\ Has(prev_slots, 0)) => Quiet(written')]_vars

\* a first frame, one finger pressing well away from where the touch-down saw it
C12_Witness ==
    /\ event = "report" /\ h_frame = "first" /\ ~is_palm_rejected
    /\ current_finger_count = 1 /\ Has(slots, 0)
    /\ slots[0].p >= LOW_PRESSURE_THRESHOLD /\ slots[0].x # touch_start_coords[1]
    /\ written = <<Syn>>

\* C13: once a two-finger frame has scrolled or a chord has been written, no step
\* writes REL_X/REL_Y until the next touch-down, whatever the finger count becomes.
C13_NoMotionAfterScrollOrGesture ==
    [][(h_scrolled \/ h_chords > 0) => ~HasMotion(written')]_vars

\* a one-finger frame after the session scrolled, with slot 0 in both generations
C13_Witness ==
    /\ event = "report" /\ h_scrolled /\ h_chords = 0 /\ h_frame = "later"
    /\ current_finger_count = 1 /\ Has(slots, 0) /\ slots[0].p >= LOW_PRESSURE_THRESHOLD
    /\ written = <<Syn>>

\* C14: an event with a code the loop does not name (an EV_ABS code other than slot,
\* position, pressure and tracking id; an EV_KEY code other than the tools and
\* BTN_TOUCH) leaves the whole driver state as it was, the set of slots included, and
\* writes nothing.
C14_UnknownEventsIgnored ==
    [][(\/ HandleAbs("ABS_MT_TOUCH_MAJOR", 1)
        \/ \E v \in {0, 1} : HandleKey("BTN_TOOL_QUINTTAP", v))
       => (UNCHANGED driver /\ written' = <<>>)]_vars

IsKeyboard(e) == e[1] = "EV_KEY" /\ e[2] \in KeyboardKeys

\* w[i .. i + 2n] is n key-downs, a synchronization marker, and the key-ups of the
\* same keys in reverse order
ChordAt(w, i, n) ==
    /\ i + 2 * n <= Len(w)
    /\ \A j \in 0..(n - 1) : IsKeyDown(w[i + j])
    /\ w[i + n] = Syn
    /\ \A j \in 1..n : w[i + n + j] = Key(w[i + n - j][2], 0)

\* C15: whatever a step writes, its keyboard events are one chord: key-downs in
\* order, a synchronization marker, then the key-ups of exactly those keys in reverse
\* order, all in the output of the one frame; so every key pressed in a frame is
\* released in it, and only report boundaries write keys.
C15_ChordIsBalanced ==
    (\E i \in 1..Len(written) : IsKeyboard(written[i])) =>
        /\ event = "report"
        /\ \E i, n \in 1..Len(written) :
             /\ ChordAt(written, i, n)
             /\ \A j \in 1..Len(written) :
                  IsKeyboard(written[j]) => j \in i..(i + 2 * n)

\* the frame that wrote Alt+Shift+Tab, three keys down and three up
C15_Witness ==
    /\ event = "report"
    /\ \E i \in 1..Len(written) :
         /\ ChordAt(written, i, 3)
         /\ written[i] = Key("KEY_LEFTALT", 1)
         /\ written[i + 6] = Key("KEY_LEFTALT", 0)

\* the step is the loop's handling of some BTN_TOOL_* event
IsToolStep == \E c \in ToolCodes, v \in {0, 1} : HandleKey(c, v)

\* C16: current_finger_count is always in 0..4; a BTN_TOOL_FINGER / DOUBLETAP /
\* TRIPLETAP / QUADTAP event with value v leaves it at 1 / 2 / 3 / 4 if v is nonzero
\* and at 0 if v is zero, whichever tool set the count before; no other step changes it.
C16_CountFollowsLastTool ==
    /\ [](current_finger_count \in 0..4)
    /\ [][/\ \A v \in {0, 1} :
               /\ HandleKey("BTN_TOOL_FINGER", v) =>
                    current_finger_count' = (IF v # 0 THEN 1 ELSE 0)
               /\ HandleKey("BTN_TOOL_DOUBLETAP", v) =>
                    current_finger_count' = (IF v # 0 THEN 2 ELSE 0)
               /\ HandleKey("BTN_TOOL_TRIPLETAP", v) =>
                    current_finger_count' = (IF v # 0 THEN 3 ELSE 0)
               /\ HandleKey("BTN_TOOL_QUADTAP", v) =>
                    current_finger_count' = (IF v # 0 THEN 4 ELSE 0)
          /\ ~IsToolStep => current_finger_count' = current_finger_count]_vars

\* the count is 0 after the session had three fingers or more down: a tool was released
C16_Witness ==
    event = "key" /\ current_finger_count = 0 /\ h_fingers >= 3

\* C17: between two consecutive touch-downs at most one tap click (the down and the up
\* of a button written at a touch-up) is written, also when more than one BTN_TOUCH
\* with a non-pressed value arrives before the next touch-down.
C17_OneTapPerSession == [][h_tapped => ~TapIn(written')]_vars

\* C18: a session in which a report boundary wrote a physical button-down, the frame
\* of the touch-down included, writes no tap click at its touch-up.
C18_PressedSessionNeverTaps ==
    [][(IsTouchUp(event') /\ h_pressed = "pressed") => ~TapIn(written')]_vars

\* the button events of w alternate for each button, starting from the set `held`
RECURSIVE Alternates(_, _)
Alternates(held, w) ==
    IF w = <<>> THEN TRUE
    ELSE LET e == Head(w)
         IN  IF ~IsButton(e) THEN Alternates(held, Tail(w))
             ELSE IF e[3] = 1
             THEN e[2] \notin held /\ Alternates(held \cup {e[2]}, Tail(w))
             ELSE e[2] \in held /\ Alternates(held \ {e[2]}, Tail(w))

\* C19: over both click paths the button events of each button alternate down, up:
\* no step writes a down for a button that is held or an up for one that is not.  The
\* held buttons before a step are the one the physical path holds (h_phys), since a tap
\* click releases what it presses; so in particular no tap click is written for the
\* button the physical path holds.
C19_ButtonsAlternate == [][Alternates({h_phys} \ {"None"}, written')]_vars

\* C20: the scroll accumulators hold only a remainder that is not yet a tick: after
\* every report boundary, and so in every state, |scroll_acc_x| <= SCROLL_DIVIDER and
\* |scroll_acc_y| <= SCROLL_DIVIDER, over any sessions and deltas of either sign.
C20_AccumulatorsBounded ==
    Abs(scroll_acc_x) <= SCROLL_DIVIDER /\ Abs(scroll_acc_y) <= SCROLL_DIVIDER

\* a two-finger frame that left the vertical accumulator at the bound itself, on the
\* negative side, after the horizontal one had written ticks and kept a remainder
C20_Witness ==
    /\ event = "report" /\ is_scrolling /\ current_finger_count = 2
    /\ scroll_acc_y = -SCROLL_DIVIDER
    /\ scroll_acc_x # 0

====
